---- MODULE Spec2Model ----
(***************************************************************************)
(* A model of the presence server of src/app.py: the in-memory registry    *)
(* active_users, the socket handlers, the HTTP endpoints and the three     *)
(* background loops (cleanup_loop, presence_rollup_loop,                   *)
(* presence_retention_loop).                                               *)
(*                                                                         *)
(* Time is a counter of abstract clock units; a minute bucket is           *)
(* MinuteLen units long and the inactivity threshold is                    *)
(* PRESENCE_INACTIVE_SECONDS units.                                        *)
(***************************************************************************)
EXTENDS Integers, Sequences, FiniteSets, TLC

\* ------------------------------------------------------------------ bounds
\* The clock stops at MaxTime.
MaxTime == 2

\* The user ids, connection ids (request.sid) and user_info values of the model.
Users == {"u1", "u2"}
Conns == {"c1", "c2"}
Infos == {"i1", "i2"}

\* data.get('user_id') of a message without user_id; falsy in `if user_id:`.
NoUserId == "none"
\* 'socket_id': None of a record created by POST /api/user-presence.
NoSocket == "nosocket"

\* --------------------------------------------------------- configuration
\* PRESENCE_INACTIVE_SECONDS, in clock units.
PRESENCE_INACTIVE_SECONDS == 1
\* The length of a minute bucket, in clock units.
MinuteLen == 2

\* PRESENCE_RETENTION_DAYS as the process starts with no other setting: a
\* positive number of days (90 in the code).
PRESENCE_RETENTION_DAYS == 1

\* A day (INTERVAL 1 DAY) in units of the clock; the clock of the model is
\* short, and a day is as long as a minute.
DayLen == 2

VARIABLES
    active_users,   \* the registry: the dict's records, in insertion order
    now,            \* datetime.now()
    emitted,        \* the active_users_update payloads emitted by the last step
    queries,        \* the queries the last step issued to the database
    response,       \* the HTTP response (or handler error) of the last step
    login_t,        \* handle_user_login in flight
    activity_t,     \* handle_user_activity in flight
    reader_t,       \* health_check / get_stats in flight
    cleanup_t,      \* the cleanup_loop thread
    rollup_t,       \* the presence_rollup_loop thread
    retention_t,    \* the presence_retention_loop thread
    user_presence_minutely  \* the persisted table, rows in insertion order

vars == <<active_users, now, emitted, queries, response, login_t, activity_t,
          reader_t, cleanup_t, rollup_t, retention_t, user_presence_minutely>>

threads == <<login_t, activity_t, reader_t, cleanup_t, rollup_t, retention_t>>

\* ------------------------------------------------------------- the dict
\* active_users is a Python dict: unique keys, iterated in insertion order.
Keys(d) == {d[i].user_id : i \in 1..Len(d)}

DictHas(d, k) == k \in Keys(d)

DictIndex(d, k) == CHOOSE i \in 1..Len(d) : d[i].user_id = k

DictGet(d, k) == d[DictIndex(d, k)]

\* d[k] = v: an existing key keeps its place, a new key is appended.
DictSet(d, k, v) ==
    IF DictHas(d, k)
    THEN [i \in 1..Len(d) |-> IF d[i].user_id = k THEN v ELSE d[i]]
    ELSE Append(d, v)

\* del d[k]
DictDel(d, k) == SelectSeq(d, LAMBDA r : r.user_id # k)

\* ------------------------------------------------------- pure functions
\* datetime.isoformat(): a string, not the datetime itself.
IsoFormat(t) == <<"iso", t>>

serialize_user(user_data) ==
    [socket_id |-> user_data.socket_id,
     last_seen |-> IsoFormat(user_data.last_seen),
     user_info |-> user_data.user_info,
     user_id   |-> user_data.user_id,
     is_admin  |-> user_data.is_admin]

\* What the database does on the admin lookup: no connection
\* (get_db_connection() is None), a mysql error on the query, or the
\* COUNT(*) over admin_users (0 or 1 row).
AdminAnswers == {"no_conn", "error", "count0", "count1"}

\* check_if_admin: False without a connection or on a query error, else
\* COUNT(*) > 0.
check_if_admin(answer) ==
    IF answer = "no_conn"
    THEN FALSE
    ELSE (IF answer = "error" THEN FALSE ELSE answer = "count1")

\* The queries check_if_admin issues.
AdminQueries(answer) == IF answer = "no_conn" THEN << >> ELSE <<"admin_lookup">>

\* [user for user in d.values() if not user.get('is_admin', False)]
NonAdminUsers(d) == SelectSeq(d, LAMBDA r : ~r.is_admin)

\* sum(1 for user in d.values() if not user.get('is_admin', False))
NonAdminCount(d) == Len(NonAdminUsers(d))

SerializedNonAdmins(d) ==
    [i \in 1..Len(NonAdminUsers(d)) |-> serialize_user(NonAdminUsers(d)[i])]

\* The payload of active_users_update.
Payload(count, users) == [count |-> count, users |-> users]

\* The test with the boundary included.
IsInactiveInclusive(t, user_data) == t - user_data.last_seen >= PRESENCE_INACTIVE_SECONDS

\* The test of cleanup_inactive_users.
IsInactive(t, user_data) == t - user_data.last_seen > PRESENCE_INACTIVE_SECONDS

\* inactive_users of cleanup_inactive_users.
InactiveUsers(d, t) == {d[i].user_id : i \in {j \in 1..Len(d) : IsInactive(t, d[j])}}

\* The registry after the `del` loop of cleanup_inactive_users.
AfterCleanup(d, t) == SelectSeq(d, LAMBDA r : r.user_id \notin InactiveUsers(d, t))

\* The scan of handle_disconnect if it removed its loop variable user_id
\* where the code removes user_to_remove: after a scan without a match the
\* loop variable is the last key of the dict.
UserToRemoveLoopVariable(d, sid) ==
    IF \E i \in 1..Len(d) : d[i].socket_id = sid
    THEN d[CHOOSE i \in 1..Len(d) :
             /\ d[i].socket_id = sid
             /\ \A j \in 1..(i - 1) : d[j].socket_id # sid].user_id
    ELSE (IF d = << >> THEN NoUserId ELSE d[Len(d)].user_id)

\* The first record whose socket_id is sid (the scan of handle_disconnect
\* stops at the first match), or NoUserId.
UserToRemove(d, sid) ==
    IF \E i \in 1..Len(d) : d[i].socket_id = sid
    THEN d[CHOOSE i \in 1..Len(d) :
             /\ d[i].socket_id = sid
             /\ \A j \in 1..(i - 1) : d[j].socket_id # sid].user_id
    ELSE NoUserId

\* A record whose last_seen is cut to the minute, where the code stores
\* datetime.now() as it is.
NewRecordTruncated(sid, t, user_info, user_id, is_admin) ==
    [socket_id |-> sid, last_seen |-> (t \div MinuteLen) * MinuteLen,
     user_info |-> user_info, user_id |-> user_id, is_admin |-> is_admin]

\* The record handle_user_login and update_user_presence store, with
\* last_seen = datetime.now() read under users_lock.
NewRecord(sid, t, user_info, user_id, is_admin) ==
    [socket_id |-> sid, last_seen |-> t, user_info |-> user_info,
     user_id |-> user_id, is_admin |-> is_admin]

\* ------------------------------------------------ iteration without the lock
\* A comprehension over active_users.values() outside `with users_lock` runs
\* while other threads change the dict.  A dict iterator (CPython 3.8+) keeps
\* the size at its creation (used), the number of items it may still yield
\* (len) and its place: `ahead` is the set of keys whose entries lie after
\* that place.
IterNew(d) == [used |-> Len(d), len |-> Len(d), ahead |-> Keys(d)]

\* The first entry after the iterator's place.
IterFirst(it, d) ==
    d[CHOOSE i \in 1..Len(d) :
        /\ d[i].user_id \in it.ahead
        /\ \A j \in 1..(i - 1) : d[j].user_id \notin it.ahead]

\* next(it): "error" is RuntimeError (dictionary changed size during
\* iteration, or dictionary keys changed during iteration), "stop" is
\* StopIteration, "item" yields IterFirst.
IterOutcome(it, d) ==
    IF Len(d) # it.used
    THEN "error"
    ELSE (IF it.ahead \cap Keys(d) = {}
          THEN "stop"
          ELSE (IF it.len = 0 THEN "error" ELSE "item"))

IterAdvance(it, d) ==
    [it EXCEPT !.len = @ - 1, !.ahead = @ \ {IterFirst(it, d).user_id}]

\* What a change of the dict from d to d2 does to the iterator of thread t:
\* a deleted entry is no longer ahead, a new key is appended behind the last
\* entry and so is ahead, a value stored under an existing key stays in place.
SyncIter(t, d, d2) ==
    IF "it" \in DOMAIN t
    THEN [t EXCEPT !.it.ahead = (@ \cap Keys(d2)) \cup (Keys(d2) \ Keys(d))]
    ELSE t

\* The thread of GET /health and GET /api/stats also records, in `seen`, the
\* non-admin counts the registry has had since its count began.
SyncReader(t, d, d2) ==
    IF "seen" \in DOMAIN t
    THEN [SyncIter(t, d, d2) EXCEPT !.seen = @ \cup {NonAdminCount(d2)}]
    ELSE t

\* The threads after the registry has become d2.
Synced(d2) ==
    /\ login_t' = SyncIter(login_t, active_users, d2)
    /\ reader_t' = SyncReader(reader_t, active_users, d2)
    /\ cleanup_t' = SyncIter(cleanup_t, active_users, d2)
    /\ UNCHANGED <<activity_t, rollup_t, retention_t>>

\* ------------------------------------------------------ the minute rollup
\* datetime.now().replace(second=0, microsecond=0)
MinuteFloor(t) == (t \div MinuteLen) * MinuteLen

\* The snapshot with < where the code has <=.
ActiveUserIdsStrict(d, t) ==
    LET fresh == SelectSeq(d, LAMBDA r : t - r.last_seen < PRESENCE_INACTIVE_SECONDS)
    IN [i \in 1..Len(fresh) |-> fresh[i].user_id]

\* active_user_ids of record_minute_presence.
ActiveUserIds(d, t) ==
    LET fresh == SelectSeq(d, LAMBDA r : t - r.last_seen <= PRESENCE_INACTIVE_SECONDS)
    IN [i \in 1..Len(fresh) |-> fresh[i].user_id]

Rows(table) == {table[i] : i \in 1..Len(table)}

\* INSERT without IGNORE into a table without the key: the row is added.
InsertPlain(table, row) == [table |-> Append(table, row), rowcount |-> 1]

\* INSERT IGNORE INTO user_presence_minutely (bucket_minute, user_id): the
\* pair is the table's unique key, a row whose pair exists is ignored and
\* cursor.rowcount is 0.
InsertIgnore(table, row) ==
    IF row \in Rows(table)
    THEN [table |-> table, rowcount |-> 0]
    ELSE [table |-> Append(table, row), rowcount |-> 1]

\* The first n passes of `for user_id in active_user_ids`: the table as the
\* transaction sees it, and `inserted`.
RECURSIVE InsertLoop(_, _, _, _)
InsertLoop(table, bucket_minute, ids, n) ==
    IF n = 0
    THEN [table |-> table, inserted |-> 0]
    ELSE LET before == InsertLoop(table, bucket_minute, ids, n - 1)
             one == InsertIgnore(before.table, <<bucket_minute, ids[n]>>)
         IN [table |-> one.table, inserted |-> before.inserted + one.rowcount]

\* What can go wrong in a cycle: nothing, no connection, a
\* mysql.connector.Error, any other exception.
Faults == {"none", "no_conn", "mysql", "other"}

\* The loop without its try/except: an exception that leaves
\* record_minute_presence ends the thread.
AfterCycleUnguarded(fault) == IF fault = "other" THEN "dead" ELSE "waiting"

\* presence_rollup_loop after record_minute_presence(): an exception is
\* caught and printed, and the loop goes back to sleep.
AfterCycle(fault) == "waiting"

\* ---------------------------------------------------------------- Init
NoResponse == [endpoint |-> "none"]

IdleThread == [pc |-> "idle"]

Init ==
    /\ active_users = << >>
    /\ now = 0
    /\ emitted = << >>
    /\ queries = << >>
    /\ response = NoResponse
    /\ login_t = IdleThread
    /\ activity_t = IdleThread
    /\ reader_t = IdleThread
    /\ cleanup_t = [pc |-> "sleep"]
    /\ rollup_t = [pc |-> "waiting", attempts |-> 0]
    /\ retention_t = [pc |-> "sleep", days |-> PRESENCE_RETENTION_DAYS]
    /\ user_presence_minutely = << >>

\* ------------------------------------------------ handlers, run alone
\* The clock advances.
Tick ==
    /\ now < MaxTime
    /\ now' = now + 1
    /\ emitted' = << >>
    /\ queries' = << >>
    /\ response' = NoResponse
    /\ UNCHANGED <<active_users, threads, user_presence_minutely>>

\* handle_user_login, with no other thread running during the handler.
Login(sid, user_id, user_info, answer) ==
    /\ IF user_id # NoUserId
       THEN LET is_admin == check_if_admin(answer)
                d == DictSet(active_users, user_id,
                             NewRecord(sid, now, user_info, user_id, is_admin))
            IN /\ active_users' = d
               /\ queries' = AdminQueries(answer)
               /\ emitted' = <<Payload(NonAdminCount(d), SerializedNonAdmins(d))>>
       ELSE /\ active_users' = active_users
            /\ queries' = << >>
            /\ emitted' = << >>
    /\ response' = NoResponse
    /\ Synced(active_users')
    /\ UNCHANGED <<now, user_presence_minutely>>

\* POST /api/user-presence if it tested user_id after the session upsert
\* and not before it.
UpdateUserPresenceLateTest(user_id, user_info, sess_conn_ok, answer) ==
    /\ IF user_id # NoUserId
       THEN /\ active_users' =
                  IF DictHas(active_users, user_id)
                  THEN DictSet(active_users, user_id,
                               [DictGet(active_users, user_id) EXCEPT !.last_seen = now])
                  ELSE DictSet(active_users, user_id,
                               NewRecord(NoSocket, now, user_info, user_id,
                                         check_if_admin(answer)))
            /\ queries' = (IF sess_conn_ok THEN <<"upsert_session">> ELSE << >>)
                          \o (AdminQueries(answer))
            /\ response' = [endpoint |-> "user-presence", success |-> TRUE,
                            user_id |-> user_id]
       ELSE /\ active_users' = active_users
            /\ queries' = (IF sess_conn_ok THEN <<"upsert_session">> ELSE << >>)
            /\ response' = [endpoint |-> "user-presence", success |-> FALSE,
                            error |-> "Invalid user_id"]
    /\ emitted' = << >>
    /\ Synced(active_users')
    /\ UNCHANGED <<now, user_presence_minutely>>

\* POST /api/user-presence.
UpdateUserPresence(user_id, user_info, sess_conn_ok, answer) ==
    /\ IF user_id # NoUserId
       THEN LET is_admin == check_if_admin(answer)
            IN /\ active_users' =
                     IF DictHas(active_users, user_id)
                     THEN DictSet(active_users, user_id,
                                  [DictGet(active_users, user_id) EXCEPT !.last_seen = now])
                     ELSE DictSet(active_users, user_id,
                                  NewRecord(NoSocket, now, user_info, user_id, is_admin))
               /\ queries' = (IF sess_conn_ok THEN <<"upsert_session">> ELSE << >>)
                             \o (AdminQueries(answer))
               /\ response' = [endpoint |-> "user-presence", success |-> TRUE,
                               user_id |-> user_id]
       ELSE /\ active_users' = active_users
            /\ queries' = << >>
            /\ response' = [endpoint |-> "user-presence", success |-> FALSE,
                            error |-> "Invalid user_id"]
    /\ emitted' = << >>
    /\ Synced(active_users')
    /\ UNCHANGED <<now, user_presence_minutely>>

\* handle_user_activity, with no other thread running during the handler.
Activity(user_id) ==
    /\ active_users' =
          IF user_id # NoUserId /\ DictHas(active_users, user_id)
          THEN DictSet(active_users, user_id,
                       [DictGet(active_users, user_id) EXCEPT !.last_seen = now])
          ELSE active_users
    /\ emitted' = << >>
    /\ queries' = << >>
    /\ response' = NoResponse
    /\ Synced(active_users')
    /\ UNCHANGED <<now, user_presence_minutely>>

\* handle_disconnect.  `response` keeps what the handler printed and found:
\* the sid of its first line and user_to_remove.
Disconnect(sid) ==
    /\ LET user_to_remove == UserToRemove(active_users, sid)
       IN /\ IF user_to_remove # NoUserId
             THEN LET d == DictDel(active_users, user_to_remove)
                  IN /\ active_users' = d
                     /\ emitted' = <<Payload(NonAdminCount(d), SerializedNonAdmins(d))>>
             ELSE /\ active_users' = active_users
                  /\ emitted' = << >>
          /\ response' = [endpoint |-> "disconnect", sid |-> sid,
                          user_to_remove |-> user_to_remove]
    /\ queries' = << >>
    /\ Synced(active_users')
    /\ UNCHANGED <<now, user_presence_minutely>>

\* One pass of cleanup_loop with no other thread running during it:
\* cleanup_inactive_users(), then the unconditional emit.
CleanupPass ==
    /\ LET d == AfterCleanup(active_users, now)
           p == Payload(NonAdminCount(d), SerializedNonAdmins(d))
       IN /\ active_users' = d
          /\ emitted' = IF InactiveUsers(active_users, now) # {}
                        THEN <<p, p>> ELSE <<p>>
    /\ queries' = << >>
    /\ response' = NoResponse
    /\ Synced(active_users')
    /\ UNCHANGED <<now, user_presence_minutely>>

\* GET /api/active-users: count and users are read under users_lock.
GetActiveUsers ==
    /\ response' = [endpoint |-> "active-users",
                    count |-> Len(NonAdminUsers(active_users)),
                    users |-> SerializedNonAdmins(active_users)]
    /\ emitted' = << >>
    /\ queries' = << >>
    /\ UNCHANGED <<active_users, now, threads, user_presence_minutely>>

\* GET /debug.
DebugInfo ==
    /\ response' = [endpoint |-> "debug",
                    total_users |-> Len(active_users),
                    non_admin_users |-> Len(SerializedNonAdmins(active_users))]
    /\ emitted' = << >>
    /\ queries' = << >>
    /\ UNCHANGED <<active_users, now, threads, user_presence_minutely>>

\* GET /health, with no other thread running during its count; `seen` is
\* the count of the one registry state there was.
HealthCheck ==
    /\ response' = [endpoint |-> "health",
                    active_users |-> NonAdminCount(active_users),
                    seen |-> {NonAdminCount(active_users)}]
    /\ emitted' = << >>
    /\ queries' = << >>
    /\ UNCHANGED <<active_users, now, threads, user_presence_minutely>>

\* GET /api/stats, with no other thread running during its count, and its
\* two SELECTs when there is a connection.
GetStats(conn_ok) ==
    /\ response' = [endpoint |-> "stats",
                    active_users |-> NonAdminCount(active_users),
                    seen |-> {NonAdminCount(active_users)}]
    /\ emitted' = << >>
    /\ queries' = IF conn_ok THEN <<"count_users", "count_users_last_hour">> ELSE << >>
    /\ UNCHANGED <<active_users, now, threads, user_presence_minutely>>

Next ==
    \/ Tick
    \/ \E sid \in Conns, user_id \in Users \cup {NoUserId}, user_info \in Infos,
          answer \in AdminAnswers :
          Login(sid, user_id, user_info, answer)
    \/ \E user_id \in Users \cup {NoUserId}, user_info \in Infos,
          sess_conn_ok \in BOOLEAN, answer \in AdminAnswers :
          UpdateUserPresence(user_id, user_info, sess_conn_ok, answer)
    \/ \E user_id \in Users \cup {NoUserId} : Activity(user_id)
    \/ \E sid \in Conns : Disconnect(sid)
    \/ CleanupPass
    \/ GetActiveUsers
    \/ DebugInfo

Spec == Init /\ [][Next]_vars

\* --------------------------------------- handlers and loops, interleaved
\* The steps of the handlers that work outside users_lock and of
\* cleanup_loop, one at a time.  A block under users_lock is one step.

\* handle_user_login up to the end of its `with users_lock` block.
LoginStore(sid, user_id, user_info, answer) ==
    /\ login_t.pc = "idle"
    /\ IF user_id # NoUserId
       THEN LET d == DictSet(active_users, user_id,
                             NewRecord(sid, now, user_info, user_id,
                                       check_if_admin(answer)))
            IN /\ active_users' = d
               /\ login_t' = [pc |-> "stored"]
               /\ reader_t' = SyncReader(reader_t, active_users, d)
               /\ cleanup_t' = SyncIter(cleanup_t, active_users, d)
               /\ queries' = AdminQueries(answer)
       ELSE /\ queries' = << >>
            /\ UNCHANGED <<active_users, login_t, reader_t, cleanup_t>>
    /\ emitted' = << >>
    /\ response' = NoResponse
    /\ UNCHANGED <<now, activity_t, rollup_t, retention_t, user_presence_minutely>>

\* One next() of non_admin_count = sum(1 for user in active_users.values()
\* if not ...) of handle_user_login; the first one creates the iterator.
LoginCountNext ==
    /\ login_t.pc \in {"stored", "counting"}
    /\ LET it == IF login_t.pc = "stored" THEN IterNew(active_users) ELSE login_t.it
           acc == IF login_t.pc = "stored" THEN 0 ELSE login_t.acc
           outcome == IterOutcome(it, active_users)
       IN /\ login_t' =
                IF outcome = "item"
                THEN [pc |-> "counting", it |-> IterAdvance(it, active_users),
                      acc |-> IF IterFirst(it, active_users).is_admin
                              THEN acc ELSE acc + 1]
                ELSE (IF outcome = "stop"
                      THEN [pc |-> "counted", count |-> acc]
                      ELSE IdleThread)
          /\ response' = IF outcome = "error"
                         THEN [endpoint |-> "user_login", error |-> "RuntimeError"]
                         ELSE NoResponse
    /\ emitted' = << >>
    /\ queries' = << >>
    /\ UNCHANGED <<active_users, now, activity_t, reader_t, cleanup_t, rollup_t,
                   retention_t, user_presence_minutely>>

\* One next() of the 'users' list comprehension of handle_user_login, and the
\* emit once the list is complete.
LoginListNext ==
    /\ login_t.pc \in {"counted", "listing"}
    /\ LET it == IF login_t.pc = "counted" THEN IterNew(active_users) ELSE login_t.it
           acc == IF login_t.pc = "counted" THEN << >> ELSE login_t.acc
           outcome == IterOutcome(it, active_users)
       IN /\ login_t' =
                IF outcome = "item"
                THEN [pc |-> "listing", count |-> login_t.count,
                      it |-> IterAdvance(it, active_users),
                      acc |-> IF IterFirst(it, active_users).is_admin
                              THEN acc
                              ELSE Append(acc, serialize_user(IterFirst(it, active_users)))]
                ELSE IdleThread
          /\ emitted' = IF outcome = "stop"
                        THEN <<Payload(login_t.count, acc)>> ELSE << >>
          /\ response' = IF outcome = "error"
                         THEN [endpoint |-> "user_login", error |-> "RuntimeError"]
                         ELSE NoResponse
    /\ queries' = << >>
    /\ UNCHANGED <<active_users, now, activity_t, reader_t, cleanup_t, rollup_t,
                   retention_t, user_presence_minutely>>

\* handle_user_activity: the test `user_id and user_id in active_users`,
\* made before users_lock is taken.
ActivityCheck(user_id) ==
    /\ activity_t.pc = "idle"
    /\ activity_t' = IF user_id # NoUserId /\ DictHas(active_users, user_id)
                     THEN [pc |-> "checked", user_id |-> user_id]
                     ELSE IdleThread
    /\ emitted' = << >>
    /\ queries' = << >>
    /\ response' = NoResponse
    /\ UNCHANGED <<active_users, now, login_t, reader_t, cleanup_t, rollup_t,
                   retention_t, user_presence_minutely>>

\* handle_user_activity: active_users[user_id]['last_seen'] = datetime.now()
\* under users_lock; KeyError when the record has gone since the test.
ActivityWrite ==
    /\ activity_t.pc = "checked"
    /\ IF DictHas(active_users, activity_t.user_id)
       THEN /\ active_users' =
                  DictSet(active_users, activity_t.user_id,
                          [DictGet(active_users, activity_t.user_id)
                              EXCEPT !.last_seen = now])
            /\ response' = NoResponse
       ELSE /\ active_users' = active_users
            /\ response' = [endpoint |-> "user_activity", error |-> "KeyError"]
    /\ activity_t' = IdleThread
    /\ emitted' = << >>
    /\ queries' = << >>
    /\ UNCHANGED <<now, login_t, reader_t, cleanup_t, rollup_t, retention_t,
                   user_presence_minutely>>

\* One next() of the count of GET /health or GET /api/stats, which read
\* active_users without users_lock; the response once the count is complete.
ReadNext(endpoint) ==
    /\ IF reader_t.pc = "idle" THEN TRUE ELSE reader_t.endpoint = endpoint
    /\ LET it == IF reader_t.pc = "idle" THEN IterNew(active_users) ELSE reader_t.it
           acc == IF reader_t.pc = "idle" THEN 0 ELSE reader_t.acc
           seen == IF reader_t.pc = "idle"
                   THEN {NonAdminCount(active_users)} ELSE reader_t.seen
           outcome == IterOutcome(it, active_users)
       IN /\ reader_t' =
                IF outcome = "item"
                THEN [pc |-> "counting", endpoint |-> endpoint, seen |-> seen,
                      it |-> IterAdvance(it, active_users),
                      acc |-> IF IterFirst(it, active_users).is_admin
                              THEN acc ELSE acc + 1]
                ELSE IdleThread
          /\ response' =
                IF outcome = "item"
                THEN NoResponse
                ELSE (IF outcome = "stop"
                      THEN [endpoint |-> endpoint, active_users |-> acc,
                            seen |-> seen]
                      ELSE [endpoint |-> endpoint, error |-> "RuntimeError"])
    /\ emitted' = << >>
    /\ queries' = << >>
    /\ UNCHANGED <<active_users, now, login_t, activity_t, cleanup_t, rollup_t,
                   retention_t, user_presence_minutely>>

\* cleanup_loop: cleanup_inactive_users(), all of it under users_lock.
CleanupSweep ==
    /\ cleanup_t.pc = "sleep"
    /\ LET d == AfterCleanup(active_users, now)
           removed == InactiveUsers(active_users, now) # {}
       IN /\ active_users' = d
          /\ emitted' = IF removed
                        THEN <<Payload(NonAdminCount(d), SerializedNonAdmins(d))>>
                        ELSE << >>
          /\ cleanup_t' = [pc |-> "swept"]
          /\ login_t' = SyncIter(login_t, active_users, d)
          /\ reader_t' = SyncReader(reader_t, active_users, d)
    /\ queries' = << >>
    /\ response' = NoResponse
    /\ UNCHANGED <<now, activity_t, rollup_t, retention_t, user_presence_minutely>>

\* cleanup_loop: one next() of its non_admin_count, read without users_lock.
\* Nothing catches the RuntimeError: the thread ends.
CleanupCountNext ==
    /\ cleanup_t.pc \in {"swept", "counting"}
    /\ LET it == IF cleanup_t.pc = "swept" THEN IterNew(active_users) ELSE cleanup_t.it
           acc == IF cleanup_t.pc = "swept" THEN 0 ELSE cleanup_t.acc
           outcome == IterOutcome(it, active_users)
       IN cleanup_t' =
             IF outcome = "item"
             THEN [pc |-> "counting", it |-> IterAdvance(it, active_users),
                   acc |-> IF IterFirst(it, active_users).is_admin
                           THEN acc ELSE acc + 1]
             ELSE (IF outcome = "stop"
                   THEN [pc |-> "counted", count |-> acc]
                   ELSE [pc |-> "dead"])
    /\ emitted' = << >>
    /\ queries' = << >>
    /\ response' = NoResponse
    /\ UNCHANGED <<active_users, now, login_t, activity_t, reader_t, rollup_t,
                   retention_t, user_presence_minutely>>

\* cleanup_loop: one next() of its 'users' list, then socketio.emit and back
\* to time.sleep(3).  Nothing catches the RuntimeError here either.
CleanupListNext ==
    /\ cleanup_t.pc \in {"counted", "listing"}
    /\ LET it == IF cleanup_t.pc = "counted" THEN IterNew(active_users) ELSE cleanup_t.it
           acc == IF cleanup_t.pc = "counted" THEN << >> ELSE cleanup_t.acc
           outcome == IterOutcome(it, active_users)
       IN /\ cleanup_t' =
                IF outcome = "item"
                THEN [pc |-> "listing", count |-> cleanup_t.count,
                      it |-> IterAdvance(it, active_users),
                      acc |-> IF IterFirst(it, active_users).is_admin
                              THEN acc
                              ELSE Append(acc, serialize_user(IterFirst(it, active_users)))]
                ELSE (IF outcome = "stop"
                      THEN [pc |-> "sleep"] ELSE [pc |-> "dead"])
          /\ emitted' = IF outcome = "stop"
                        THEN <<Payload(cleanup_t.count, acc)>> ELSE << >>
    /\ queries' = << >>
    /\ response' = NoResponse
    /\ UNCHANGED <<active_users, now, login_t, activity_t, reader_t, rollup_t,
                   retention_t, user_presence_minutely>>

\* The heartbeat in two steps, beside the other handlers and the sweep.
NextActivity ==
    \/ Tick
    \/ \E sid \in Conns, user_id \in Users, answer \in {"count0", "count1"} :
          Login(sid, user_id, "i1", answer)
    \/ \E user_id \in Users, answer \in {"count0", "count1"} :
          UpdateUserPresence(user_id, "i1", TRUE, answer)
    \/ \E user_id \in Users \cup {NoUserId} : ActivityCheck(user_id)
    \/ ActivityWrite
    \/ \E sid \in Conns : Disconnect(sid)
    \/ CleanupPass

SpecActivity == Init /\ [][NextActivity]_vars

\* The counts of GET /health and GET /api/stats, one next() at a time,
\* beside the handlers and the sweep.
NextRead ==
    \/ Tick
    \/ \E user_id \in Users, answer \in {"count0", "count1"} :
          Login("c1", user_id, "i1", answer)
    \/ \E sid \in Conns : Disconnect(sid)
    \/ CleanupPass
    \/ \E endpoint \in {"health", "stats"} : ReadNext(endpoint)

SpecRead == Init /\ [][NextRead]_vars

\* The login handler one step at a time, beside the handlers that work
\* under users_lock alone and the sweep.
NextLogin ==
    \/ Tick
    \/ \E sid \in Conns, user_id \in Users \cup {NoUserId},
          answer \in {"count0", "count1"} :
          LoginStore(sid, user_id, "i1", answer)
    \/ LoginCountNext
    \/ LoginListNext
    \/ \E user_id \in Users, answer \in {"count0", "count1"} :
          UpdateUserPresence(user_id, "i1", TRUE, answer)
    \/ \E sid \in Conns : Disconnect(sid)
    \/ CleanupPass

SpecLogin == Init /\ [][NextLogin]_vars

\* cleanup_loop one step at a time, beside the handlers.
NextCleanupLoop ==
    \/ Tick
    \/ \E user_id \in Users, answer \in {"count0", "count1"} :
          Login("c1", user_id, "i1", answer)
    \/ \E sid \in Conns : Disconnect(sid)
    \/ CleanupSweep
    \/ CleanupCountNext
    \/ CleanupListNext

SpecCleanupLoop == Init /\ [][NextCleanupLoop]_vars

\* cleanup_loop is a daemon thread of its own: whenever it can take a step it
\* eventually takes it.
FairSpecCleanupLoop ==
    /\ Init /\ [][NextCleanupLoop]_vars
    /\ WF_vars(CleanupSweep)
    /\ WF_vars(CleanupCountNext)
    /\ WF_vars(CleanupListNext)


\* -------------------------------------------------- presence_rollup_loop
\* time.sleep(...) returns and record_minute_presence() computes
\* bucket_minute, before it asks for users_lock.
RollupWake ==
    /\ rollup_t.pc = "waiting"
    /\ rollup_t' = [pc |-> "bucket", attempts |-> 0, bucket_minute |-> MinuteFloor(now)]
    /\ emitted' = << >>
    /\ queries' = << >>
    /\ response' = NoResponse
    /\ UNCHANGED <<active_users, now, login_t, activity_t, reader_t, cleanup_t,
                   retention_t, user_presence_minutely>>

\* record_minute_presence: the snapshot under users_lock, with its own now.
RollupSnapshot ==
    /\ rollup_t.pc = "bucket"
    /\ rollup_t' = [pc |-> "snapshot", attempts |-> 0,
                    bucket_minute |-> rollup_t.bucket_minute,
                    ids |-> ActiveUserIds(active_users, now)]
    /\ emitted' = << >>
    /\ queries' = << >>
    /\ response' = NoResponse
    /\ UNCHANGED <<active_users, now, login_t, activity_t, reader_t, cleanup_t,
                   retention_t, user_presence_minutely>>

\* record_minute_presence from `if not active_user_ids` to its return, and
\* the except of presence_rollup_loop.  With fault "mysql" or "other" the
\* k-th statement raises (the commit when k is past the last insert); the
\* connection is closed without a commit and the inserts are rolled back.
RollupPersist(fault, k) ==
    /\ rollup_t.pc = "snapshot"
    /\ k <= Len(rollup_t.ids) + 1
    /\ LET ids == rollup_t.ids
           connected == ids # << >> /\ fault # "no_conn"
           done == IF fault = "none" THEN Len(ids) ELSE k - 1
           loop == InsertLoop(user_presence_minutely, rollup_t.bucket_minute, ids,
                              IF connected THEN done ELSE 0)
       IN /\ user_presence_minutely' =
                IF connected /\ fault = "none"
                THEN loop.table ELSE user_presence_minutely
          /\ queries' =
                IF connected
                THEN [i \in 1..(IF fault = "none" THEN done + 1 ELSE k) |->
                        IF i <= Len(ids) THEN "insert_ignore" ELSE "commit"]
                ELSE << >>
          /\ rollup_t' = [pc |-> AfterCycle(IF connected THEN fault ELSE "none"),
                          attempts |-> rollup_t.attempts + 1,
                          tried |-> IF connected THEN done ELSE 0,
                          inserted |-> loop.inserted,
                          outcome |-> IF ids = << >> THEN "empty" ELSE fault]
    /\ emitted' = << >>
    /\ response' = NoResponse
    /\ UNCHANGED <<active_users, now, login_t, activity_t, reader_t, cleanup_t,
                   retention_t>>

NextRollup ==
    \/ Tick
    \/ \E user_id \in Users, answer \in {"count0", "count1"} :
          Login("c1", user_id, "i1", answer)
    \/ \E user_id \in Users \cup {NoUserId} : Activity(user_id)
    \/ \E sid \in Conns : Disconnect(sid)
    \/ CleanupPass
    \/ RollupWake
    \/ RollupSnapshot
    \/ \E fault \in Faults, k \in 1..(Cardinality(Users) + 1) :
          RollupPersist(fault, k)

SpecRollup == Init /\ [][NextRollup]_vars

\* The rollup loop beside logins and the sweep alone.
NextRollupLoop ==
    \/ Tick
    \/ \E user_id \in Users : Login("c1", user_id, "i1", "count0")
    \/ CleanupPass
    \/ RollupWake
    \/ RollupSnapshot
    \/ \E fault \in Faults, k \in 1..(Cardinality(Users) + 1) :
          RollupPersist(fault, k)

\* Once awake, the rollup thread goes on: it gets users_lock and the
\* database answers.
FairSpecRollup ==
    /\ Init /\ [][NextRollupLoop]_vars
    /\ WF_vars(RollupSnapshot)
    /\ WF_vars(\E fault \in Faults, k \in 1..(Cardinality(Users) + 1) :
                  RollupPersist(fault, k))

\* ------------------------------------------------ presence_retention_loop
\* The values of the environment variable PRESENCE_RETENTION_DAYS.
RetentionSettings == {-1, 0, PRESENCE_RETENTION_DAYS}

\* The test with < where the code has <=.
RetentionDisabledStrict(days) == days < 0

\* if PRESENCE_RETENTION_DAYS <= 0: return 0
RetentionDisabled(days) == days <= 0

\* DELETE FROM user_presence_minutely WHERE bucket_minute <
\* (NOW() - INTERVAL days DAY): the rows that stay.  NOW() is the clock of
\* the database, taken to be the clock of the process.
DeleteExpired(table, t, days) ==
    SelectSeq(table, LAMBDA row : ~(row[1] < t - days * DayLen))

\* presence_retention_loop after cleanup_old_presence_data(): an exception
\* is caught and printed, and the loop sleeps for an hour.
AfterRetentionCycle(fault) == "sleep"

\* Rows that earlier runs of the server left in user_presence_minutely: the
\* table outlives the process.
PastRows == <<<<0 - 2 * DayLen, "u1">>, <<0 - DayLen, "u1">>, <<0 - DayLen, "u2">>>>

\* The state after construction when the setting and the table are what the
\* environment and the database hold.
InitRetention ==
    /\ active_users = << >>
    /\ now = 0
    /\ emitted = << >>
    /\ queries = << >>
    /\ response = NoResponse
    /\ login_t = IdleThread
    /\ activity_t = IdleThread
    /\ reader_t = IdleThread
    /\ cleanup_t = [pc |-> "sleep"]
    /\ rollup_t = [pc |-> "waiting", attempts |-> 0]
    /\ retention_t \in {[pc |-> "sleep", days |-> days] : days \in RetentionSettings}
    /\ user_presence_minutely \in {<< >>, PastRows}

\* One pass of presence_retention_loop: cleanup_old_presence_data() and the
\* except of the loop.  With fault "mysql" or "other" the k-th statement
\* raises (1 the DELETE, 2 the commit) and the connection is closed without
\* a commit.
RetentionCycle(fault, k) ==
    /\ retention_t.pc = "sleep"
    /\ k \in 1..2
    /\ LET days == retention_t.days
           connected == ~RetentionDisabled(days) /\ fault # "no_conn"
           kept == DeleteExpired(user_presence_minutely, now, days)
       IN /\ user_presence_minutely' =
                IF connected /\ fault = "none" THEN kept ELSE user_presence_minutely
          /\ queries' =
                IF connected
                THEN (IF fault = "none" \/ k = 2
                      THEN <<"delete_expired", "commit">> ELSE <<"delete_expired">>)
                ELSE << >>
          /\ retention_t' =
                [pc |-> AfterRetentionCycle(IF connected THEN fault ELSE "none"),
                 days |-> days,
                 deleted |-> IF connected /\ (fault = "none" \/ k = 2)
                             THEN Len(user_presence_minutely) - Len(kept) ELSE 0,
                 outcome |-> IF RetentionDisabled(days) THEN "disabled" ELSE fault]
    /\ emitted' = << >>
    /\ response' = NoResponse
    /\ UNCHANGED <<active_users, now, login_t, activity_t, reader_t, cleanup_t,
                   rollup_t>>

\* The pruner beside the rollup that writes the rows.
NextRetention ==
    \/ Tick
    \/ \E user_id \in Users : Login("c1", user_id, "i1", "count0")
    \/ RollupWake
    \/ RollupSnapshot
    \/ \E k \in 1..(Cardinality(Users) + 1) : RollupPersist("none", k)
    \/ \E fault \in Faults, k \in 1..2 : RetentionCycle(fault, k)

SpecRetention == InitRetention /\ [][NextRetention]_vars

\* ------------------------------------------------------ every operation
\* Every handler, endpoint and loop that can touch active_users, side by
\* side.  The rollup finds no database connection here, so that the table
\* stays as it is and the registry is all that changes.
NextRegistry ==
    \/ Tick
    \/ \E sid \in Conns, user_id \in Users : Login(sid, user_id, "i1", "count0")
    \/ \E user_id \in Users : UpdateUserPresence(user_id, "i1", TRUE, "count0")
    \/ \E user_id \in Users : Activity(user_id)
    \/ \E sid \in Conns : Disconnect(sid)
    \/ CleanupPass
    \/ GetActiveUsers
    \/ DebugInfo
    \/ HealthCheck
    \/ GetStats(TRUE)
    \/ RollupWake
    \/ RollupSnapshot
    \/ RollupPersist("no_conn", 1)
    \/ RetentionCycle("none", 1)

SpecRegistry == Init /\ [][NextRegistry]_vars

\* -------------------------------------------------------- the properties
Records(d) == {d[i] : i \in 1..Len(d)}

\* C1: registering a user_id that is already present leaves exactly one
\* record for it and does not change the record's is_admin, whatever the
\* admin lookup answers at the second registration.
C1_ReRegistrationKeepsIsAdmin ==
    [][/\ \A i, j \in 1..Len(active_users') :
             active_users'[i].user_id = active_users'[j].user_id => i = j
       /\ \A u \in Keys(active_users) \cap Keys(active_users') :
             DictGet(active_users', u).is_admin = DictGet(active_users, u).is_admin]_vars

\* C2: every step that changes the number of non-admin records emits an
\* active_users_update carrying the updated non-admin snapshot.
C2_CountChangeBroadcasts ==
    [][NonAdminCount(active_users') # NonAdminCount(active_users)
       => /\ emitted' # << >>
          /\ emitted'[Len(emitted')] =
                Payload(NonAdminCount(active_users'), SerializedNonAdmins(active_users'))]_vars

\* C3: once disconnect(sid) has been handled, no record of the registry has
\* socket_id sid.
C3_DisconnectRemovesConnection ==
    [][\A sid \in Conns :
          Disconnect(sid) => \A i \in 1..Len(active_users') : active_users'[i].socket_id # sid]_vars

\* C4: an eviction sweep at time now removes exactly the records with
\* now - last_seen > PRESENCE_INACTIVE_SECONDS; every other record, in
\* particular one with now - last_seen = PRESENCE_INACTIVE_SECONDS, stays in
\* the registry unchanged and in its place.
C4_SweepRemovesExactlyStale ==
    [][CleanupPass =>
          /\ Records(active_users') =
                {r \in Records(active_users) : now - r.last_seen <= PRESENCE_INACTIVE_SECONDS}
          /\ \A i, j \in 1..Len(active_users') :
                i < j => DictIndex(active_users, active_users'[i].user_id)
                            < DictIndex(active_users, active_users'[j].user_id)]_vars

\* A sweep has just removed a record (it emitted twice) and kept one that is
\* exactly at the threshold.
C4_Witness ==
    /\ Len(emitted) = 2
    /\ \E i \in 1..Len(active_users) :
          now - active_users[i].last_seen = PRESENCE_INACTIVE_SECONDS

\* C5: a heartbeat refreshes last_seen of a present record and is a no-op
\* for an absent one: under every interleaving with a disconnect or a sweep
\* it creates no record, fails with no error, changes no field other than
\* last_seen and emits nothing.
C5_HeartbeatIsSafe ==
    [][ActivityWrite =>
          /\ "error" \notin DOMAIN response'
          /\ Len(active_users') = Len(active_users)
          /\ \A i \in 1..Len(active_users) :
                [active_users'[i] EXCEPT !.last_seen = 0]
                   = [active_users[i] EXCEPT !.last_seen = 0]
          /\ emitted' = << >>]_vars

\* C6: the active-user count an endpoint reports is the number of non-admin
\* records of a registry state that existed while the count was read.
C6_ReportedCountIsRegistryCount ==
    IF "active_users" \in DOMAIN response
    THEN response.active_users \in response.seen
    ELSE TRUE

\* C7: in every active_users_update payload, count and users come from one
\* registry state: count is the length of users.
C7_PayloadFromOneState ==
    \A i \in 1..Len(emitted) : emitted[i].count = Len(emitted[i].users)

\* C8: no periodic task ends because one of its cycles failed.
C8_NoLoopTerminates ==
    /\ cleanup_t.pc # "dead"
    /\ rollup_t.pc # "dead"
    /\ retention_t.pc # "dead"

\* C9: every Recording cycle of the rollup loop is followed by Waiting,
\* whatever the persistence does, with one snapshot-and-persist attempt per
\* tick.
C9_RecordingReturnsToWaiting ==
    /\ [](rollup_t.attempts <= 1)
    /\ (rollup_t.pc # "waiting") ~> (rollup_t.pc = "waiting")

\* A cycle that failed with an exception other than a mysql error is over
\* and the loop is waiting again.
C9_Witness ==
    /\ rollup_t.pc = "waiting"
    /\ rollup_t.attempts = 1
    /\ rollup_t.outcome = "other"
    /\ rollup_t.tried > 0

\* C10: user_presence_minutely never holds two rows with the same
\* (bucket_minute, user_id); a cycle that commits counts in `inserted` the
\* rows it added and not the pairs that were already there.
C10_NoDuplicateRows ==
    [][/\ \A i, j \in 1..Len(user_presence_minutely') :
             user_presence_minutely'[i] = user_presence_minutely'[j] => i = j
       /\ (rollup_t.pc = "snapshot" /\ rollup_t'.pc = "waiting"
           /\ rollup_t'.outcome = "none")
          => /\ rollup_t'.inserted
                   = Len(user_presence_minutely') - Len(user_presence_minutely)
             /\ \A i \in 1..Len(user_presence_minutely) :
                   user_presence_minutely'[i] = user_presence_minutely[i]]_vars

\* A committed cycle found a pair of its snapshot already in the table.
C10_Witness ==
    /\ rollup_t.pc = "waiting"
    /\ rollup_t.attempts = 1
    /\ rollup_t.outcome = "none"
    /\ rollup_t.inserted < rollup_t.tried

\* The record of user_id is in the registry, is not an admin's, and is older
\* than the inactivity threshold.
StaleNonAdmin(user_id) ==
    /\ DictHas(active_users, user_id)
    /\ ~DictGet(active_users, user_id).is_admin
    /\ now - DictGet(active_users, user_id).last_seen > PRESENCE_INACTIVE_SECONDS

\* C11: under fair scheduling of cleanup_loop, a non-admin record that has
\* become stale does not stay stale for ever: it is evicted, unless a login
\* of that user refreshes it first, whatever other users' events interleave.
C11_StaleUserEventuallyEvicted ==
    \A user_id \in Users : StaleNonAdmin(user_id) ~> ~StaleNonAdmin(user_id)

\* C12: no active_users_update payload and no GET /api/active-users response
\* lists an admin's record, GET /debug counts every record in total_users,
\* and a user_login that the lookup answers as an admin's leaves the
\* non-admin count as it was.
C12_AdminsNeverPublic ==
    [][/\ \A i \in 1..Len(emitted') : \A j \in 1..Len(emitted'[i].users) :
             DictHas(active_users', emitted'[i].users[j].user_id)
             /\ ~DictGet(active_users', emitted'[i].users[j].user_id).is_admin
       /\ response'.endpoint = "active-users"
          => \A j \in 1..Len(response'.users) :
                ~DictGet(active_users', response'.users[j].user_id).is_admin
       /\ response'.endpoint = "debug" => response'.total_users = Len(active_users')
       /\ \A sid \in Conns, user_id \in Users, user_info \in Infos :
             Login(sid, user_id, user_info, "count1")
             => NonAdminCount(active_users') = NonAdminCount(active_users)]_vars

\* C13: while a record exists its last_seen never decreases, whichever of
\* login, HTTP presence update and heartbeat writes it.
C13_LastSeenMonotone ==
    [][\A user_id \in Keys(active_users) \cap Keys(active_users') :
          DictGet(active_users', user_id).last_seen
             >= DictGet(active_users, user_id).last_seen]_vars

\* POST /api/user-presence has just refreshed, after the clock has advanced,
\* a record that a user_login created.
C13_Witness ==
    /\ response.endpoint = "user-presence"
    /\ response.success
    /\ now > 0
    /\ DictGet(active_users, response.user_id).socket_id \in Conns
    /\ DictGet(active_users, response.user_id).last_seen = now

\* C14: a disconnect whose sid is the socket_id of no record leaves the
\* registry as it was, finds no user to remove and emits nothing; no
\* disconnect removes a record registered over HTTP, which has no socket_id.
C14_UnmatchedDisconnectIsNoOp ==
    [][\A sid \in Conns :
          Disconnect(sid) =>
             /\ \A i \in 1..Len(active_users) :
                   active_users[i].socket_id = NoSocket
                   => active_users[i] \in Records(active_users')
             /\ (\A i \in 1..Len(active_users) : active_users[i].socket_id # sid)
                => /\ active_users' = active_users
                   /\ response'.user_to_remove = NoUserId
                   /\ emitted' = << >>]_vars

\* A disconnect has just found no record for its sid, in a registry that
\* holds a record registered over HTTP and a record of another connection.
C14_Witness ==
    /\ response.endpoint = "disconnect"
    /\ response.user_to_remove = NoUserId
    /\ emitted = << >>
    /\ \E i \in 1..Len(active_users) : active_users[i].socket_id = NoSocket
    /\ \E i \in 1..Len(active_users) : active_users[i].socket_id \in Conns \ {response.sid}

\* C15: a user_login or a POST /api/user-presence for a user_id that is
\* already in the registry leaves the record with last_seen = now and with
\* the user_info the caller supplied.
C15_UpsertStoresUserInfo ==
    [][\A user_id \in Keys(active_users), user_info \in Infos :
          (\/ \E sid \in Conns, answer \in AdminAnswers :
                 Login(sid, user_id, user_info, answer)
           \/ \E sess_conn_ok \in BOOLEAN, answer \in AdminAnswers :
                 UpdateUserPresence(user_id, user_info, sess_conn_ok, answer))
          => /\ DictGet(active_users', user_id).last_seen = now
             /\ DictGet(active_users', user_id).user_info = user_info]_vars

\* C16: POST /api/user-presence without user_id answers success false with
\* error "Invalid user_id", leaves the registry as it was, sends the database
\* no admin lookup and no session upsert, and emits nothing; the endpoint
\* gives that answer to no other request.
C16_MissingUserIdChangesNothing ==
    [][/\ (\E user_info \in Infos, sess_conn_ok \in BOOLEAN, answer \in AdminAnswers :
              UpdateUserPresence(NoUserId, user_info, sess_conn_ok, answer))
          => /\ response' = [endpoint |-> "user-presence", success |-> FALSE,
                             error |-> "Invalid user_id"]
             /\ active_users' = active_users
             /\ queries' = << >>
             /\ emitted' = << >>
       /\ (response'.endpoint = "user-presence" /\ ~response'.success)
          => active_users' = active_users /\ queries' = << >>]_vars

\* The failure answer has just been given, with users in the registry.
C16_Witness ==
    /\ response = [endpoint |-> "user-presence", success |-> FALSE,
                   error |-> "Invalid user_id"]
    /\ Len(active_users) = Cardinality(Users)
    /\ queries = << >>
    /\ emitted = << >>

\* C17: a cycle of the retention pruner with a setting of zero or less
\* deletes no row and sends the database no query; with a positive setting
\* it deletes only rows whose bucket_minute is before now minus the setting
\* in days, and changes no other row; after the cycle the loop sleeps until
\* the next one.
C17_RetentionPrunesOnlyExpired ==
    [][(\E fault \in Faults, k \in 1..2 : RetentionCycle(fault, k))
       => /\ retention_t.days <= 0
             => user_presence_minutely' = user_presence_minutely /\ queries' = << >>
          /\ retention_t.days > 0
             => /\ Rows(user_presence_minutely') \subseteq Rows(user_presence_minutely)
                /\ Len(user_presence_minutely') = Cardinality(Rows(user_presence_minutely'))
                /\ \A row \in Rows(user_presence_minutely) \ Rows(user_presence_minutely') :
                      row[1] < now - retention_t.days * DayLen
          /\ retention_t'.pc = "sleep"]_vars

\* With the setting 0 a cycle is over, the loop sleeps, and the rows of past
\* days are all in the table.
C17_Witness ==
    /\ retention_t.days = 0
    /\ retention_t.pc = "sleep"
    /\ "outcome" \in DOMAIN retention_t
    /\ Rows(PastRows) \subseteq Rows(user_presence_minutely)
    /\ now > 0

\* C18: the bucket_minute under which a rollup cycle writes its rows is the
\* minute floor of the instant at which the cycle takes its snapshot of the
\* active ids, however long the cycle waited for users_lock.
C18_BucketIsMinuteOfSnapshot ==
    [][(RollupSnapshot /\ rollup_t'.ids # << >>)
       => rollup_t.bucket_minute = MinuteFloor(now)]_vars

\* C19: in every step in which a user_id of the registry is gone afterwards,
\* the step is the disconnect of the socket_id in its record or a sweep that
\* found the record older than the inactivity threshold; no other handler,
\* endpoint or loop removes a record.
C19_RemovedOnlyByDisconnectOrSweep ==
    [][\A i \in 1..Len(active_users) :
          ~DictHas(active_users', active_users[i].user_id)
          => \/ /\ active_users[i].socket_id \in Conns
                /\ Disconnect(active_users[i].socket_id)
             \/ /\ CleanupPass
                /\ now - active_users[i].last_seen > PRESENCE_INACTIVE_SECONDS]_vars

\* A disconnect has just removed the record of its connection and left
\* another user's, which is stale and which a finished rollup cycle found
\* fresh.
C19_Witness ==
    /\ response.endpoint = "disconnect"
    /\ response.user_to_remove \in Users
    /\ ~DictHas(active_users, response.user_to_remove)
    /\ rollup_t.attempts = 1
    /\ \E i \in 1..Len(active_users) :
          /\ now - active_users[i].last_seen > PRESENCE_INACTIVE_SECONDS
          /\ rollup_t.outcome = "no_conn"

\* C20: for every registry and every time, the user_ids a sweep would remove
\* and the user_ids a rollup snapshot would return are disjoint and together
\* are all the user_ids of the registry, admins included; the ids a rollup
\* cycle snapshots are user_ids that are in the registry and not stale at
\* the time of the snapshot.
C20_SweepAndSnapshotComplement ==
    /\ [](\A t \in 0..MaxTime :
             LET ids == ActiveUserIds(active_users, t)
                 snapshot == {ids[i] : i \in 1..Len(ids)}
                 swept == InactiveUsers(active_users, t)
             IN /\ snapshot \cap swept = {}
                /\ snapshot \cup swept = Keys(active_users))
    /\ [][RollupSnapshot
          => \A i \in 1..Len(rollup_t'.ids) :
                /\ DictHas(active_users, rollup_t'.ids[i])
                /\ ~IsInactive(now, DictGet(active_users, rollup_t'.ids[i]))]_vars

\* A rollup cycle has just taken its snapshot: it holds an admin who is
\* exactly at the threshold and leaves out a user who is stale.
C20_Witness ==
    /\ rollup_t.pc = "snapshot"
    /\ \E i, j \in 1..Len(active_users) :
          /\ active_users[i].is_admin
          /\ now - active_users[i].last_seen = PRESENCE_INACTIVE_SECONDS
          /\ \E n \in 1..Len(rollup_t.ids) : rollup_t.ids[n] = active_users[i].user_id
          /\ now - active_users[j].last_seen > PRESENCE_INACTIVE_SECONDS
          /\ \A n \in 1..Len(rollup_t.ids) : rollup_t.ids[n] # active_users[j].user_id

====
